---- MODULE Spec2Model ----
(***************************************************************************)
(* Real-time notification delivery and client-side reconciliation.         *)
(*                                                                         *)
(* Client side (one instance per browser tab):                             *)
(*   hooks/useWebSocket.ts            readyState, isConnected, lastMessage,*)
(*                                    connect, disconnect, the reconnect   *)
(*                                    timers                               *)
(*   contexts/AuthContext.tsx         token, user, login, logout,          *)
(*                                    initializeAuth                       *)
(*   utils/storage.ts                 the stored token and user, clearAuth *)
(*   api/axiosConfig.ts               the response interceptor             *)
(*   contexts/NotificationContext.tsx notifications, unreadCount, the      *)
(*                                    message effect, refreshNotifications,*)
(*                                    markAsRead, markAllAsRead            *)
(* Server side (Notification Store, Connection Registry, Broadcast         *)
(* Dispatcher, Push Channel): not part of the source tree, modelled from   *)
(* sections 4.1-4.3 of the specification.                                  *)
(*                                                                         *)
(* Specifications:                                                         *)
(*   Spec          one tab, dispatcher, reconnects and resync              *)
(*   SpecClient    one provider against every frame sequence and listing   *)
(*   SpecTwoTabs   two tabs of one recipient, mark-read requests           *)
(*   SpecTwoUsers  the dispatcher serving two recipients                   *)
(*   SpecHook      login, logout, close events and reconnect timers        *)
(*   SpecHandshake handshakes with accepted and rejected credentials       *)
(*   SpecFrames    one provider against frames of every type               *)
(*   SpecOneTab    one tab: publishes, mark-read requests, resync          *)
(*   SpecEvict     two tabs, heartbeats, the registry sweep, publishes     *)
(*   SpecAxios     HTTP responses of every status, page changes            *)
(*   SpecAuth      two tabs of one browser: login, logout, page loads      *)
(*   SpecMarks     SpecOneTab with mark-read requests that fail            *)
(*   SpecParse     one provider against frames that do not parse           *)
(*   SpecLogout    one tab: listings in flight across logouts              *)
(*                                                                         *)
(* A frame is (type, id): id is data.id of new_notification and            *)
(* data.notification_id of notification_marked_read. A pushed record       *)
(* carries is_read = false. setLastMessage and the [lastMessage] effect    *)
(* are separate steps: React runs the effect after the render that the     *)
(* state update scheduled, not inside ws.onmessage.                        *)
(***************************************************************************)
EXTENDS Integers, Sequences, FiniteSets, TLC

\* ---------------------------------------------------------------- bounds
\* capacity of the Notification Store (number of records ever appended)
MaxId == 2
\* frames in flight on one connection
MaxWire == 2
\* refreshNotifications calls in flight per tab
MaxFetch == 1
\* mark-read requests (markAsRead, markAllAsRead) served in one run
MaxMarks == 1
\* entries the local list may hold (new_notification prepends without limit)
MaxList == 2
\* sockets one hook has left behind with their handlers attached
MaxOthers == 2
\* reconnect timers pending at once in one hook
MaxTimers == 2
\* pieces in a path
MaxPath == 2

\* ------------------------------------------------------------- constants
Tabs == {"A", "B"}
Recipients == {"r1", "r2"}
NoToken == "null"
NoRcpt == "none"
NoMsg == [type |-> "null", id |-> 0]
\* a token the credential verifier rejects (expired or revoked)
Expired == "expired"
\* useWebSocket: const maxReconnectAttempts = 5
maxReconnectAttempts == 5
\* utils/constants.ts ROUTES; a path is the sequence of the pieces it is made of
HOME == <<"/">>
LOGIN == <<"/login">>
REGISTER == <<"/register">>
PRIVATE_TODOS == <<"/todos">>
\* AuthContext: useState<User | null>(null)
NoUser == "null"
NoResponse == [tab |-> "none", status |-> 0, token |-> NoToken, path |-> <<>>,
               outcome |-> "none"]

VARIABLES
  \* AuthContext (per tab)
  token,
  \* useWebSocket (per tab)
  readyState, isConnected, lastMessage, effectPending,
  \* NotificationProvider (per tab)
  notifications, unreadCount, fetches,
  \* server
  store, registry, wire, disp,
  \* useWebSocket refs and the provider's ping interval (per tab)
  wsTok, others, reconnectAttempts, timers, pingInterval,
  \* browser: localStorage, window.location, the last HTTP response
  storedToken, pathname, lastResponse,
  \* localStorage auth_user, AuthContext user (per tab), the browser of a tab
  storedUser, user, browser,
  \* Connection Registry: heartbeat age of each entry
  heartbeat,
  \* run counter
  marks,
  \* history
  last, offlinePub, raced, applied, markTrack

vars == <<token, readyState, isConnected, lastMessage, effectPending,
          notifications, unreadCount, fetches,
          store, registry, wire, disp, marks,
          wsTok, others, reconnectAttempts, timers, pingInterval,
          storedToken, pathname, lastResponse, heartbeat,
          storedUser, user, browser,
          last, offlinePub, raced, applied, markTrack>>

clientVars == <<token, readyState, isConnected, lastMessage, effectPending,
                notifications, unreadCount, fetches>>
serverVars == <<store, registry, wire, disp>>
countVars == <<marks>>
hookVars == <<wsTok, others, reconnectAttempts, timers, pingInterval>>
webVars == <<storedToken, pathname, lastResponse, storedUser, user, browser>>
auxVars == <<hookVars, webVars, heartbeat>>

\* --------------------------------------------------------------- helpers
Max(a, b) == IF a >= b THEN a ELSE b

\* fetchedNotifications.filter(n => !n.is_read).length
NumUnread(list) == Cardinality({i \in DOMAIN list : ~list[i].is_read})

IdsOf(list) == {list[i].id : i \in DOMAIN list}
IdSeq(list) == [i \in DOMAIN list |-> list[i].id]
Occurrences(list, id) == Cardinality({i \in DOMAIN list : list[i].id = id})

Msg(type, id) == [type |-> type, id |-> id]

isAuthenticated(t) == token[t] # NoToken

\* the recipients that have a client in the model
ActiveRecipients == {token[t] : t \in Tabs} \ {NoToken}


\* ------------------------------------------------ history bookkeeping
NoLast == [op |-> "none", tab |-> "none", id |-> 0, snap |-> <<>>,
           origin |-> "none", list |-> <<>>, count |-> 0, stale |-> FALSE,
           conn |-> FALSE]
NoTrack == [id |-> 0, to |-> {}, done |-> {}, racing |-> {}]

\* the operation that produced the current state, with the cache it started
\* from; a resync records only whether that cache differed from the list fetched
LastOp(op, t, id, snap, origin, resync) ==
  [op |-> op, tab |-> t, id |-> id, snap |-> snap, origin |-> origin,
   list |-> IF resync THEN <<>> ELSE notifications[t],
   count |-> IF resync THEN 0 ELSE unreadCount[t],
   stale |-> resync /\ notifications[t] # snap,
   conn |-> ~resync /\ isConnected[t]]

\* ------------------------------------------------- Notification Store
\* listFor(recipientId): the recipient's records, newest first
RECURSIVE ListUpTo(_, _)
ListUpTo(r, n) ==
  IF n = 0 THEN <<>>
  ELSE (IF store[n].user = r
          THEN <<[id |-> n, is_read |-> store[n].is_read]>>
          ELSE <<>>) \o ListUpTo(r, n - 1)

listFor(r) == ListUpTo(r, Len(store))

\* connectionsFor(recipientId)
connectionsFor(r) == {t \in registry : token[t] = r}

\* ------------------------------------- NotificationProvider handlers
\* the cache is the pair (notifications, unreadCount) of one provider
Cache(t) == [list |-> notifications[t], count |-> unreadCount[t]]

\* case 'new_notification'
HandleNewNotification(c, rec) ==
  [list |-> <<rec>> \o c.list, count |-> c.count + 1]

\* mutant: the read flag of the notification is flipped
HandleMarkedRead_Toggle(c, id) ==
  [list |-> [i \in DOMAIN c.list |->
               IF c.list[i].id = id
                 THEN [c.list[i] EXCEPT !.is_read = ~c.list[i].is_read]
                 ELSE c.list[i]],
   count |-> Max(0, c.count - 1)]

\* case 'notification_marked_read'
HandleMarkedRead(c, id) ==
  [list |-> [i \in DOMAIN c.list |->
               IF c.list[i].id = id
                 THEN [c.list[i] EXCEPT !.is_read = TRUE]
                 ELSE c.list[i]],
   count |-> Max(0, c.count - 1)]

\* mutant: the counter is decremented as in the single-notification case
HandleAllMarkedRead_Decrement(c) ==
  [list |-> [i \in DOMAIN c.list |-> [c.list[i] EXCEPT !.is_read = TRUE]],
   count |-> Max(0, c.count - 1)]

\* case 'notifications_all_marked_read'
HandleAllMarkedRead(c) ==
  [list |-> [i \in DOMAIN c.list |-> [c.list[i] EXCEPT !.is_read = TRUE]],
   count |-> 0]

\* mutant: the acknowledgement is counted like notification_marked_read
HandleMarkReadAck_Decrement(c) == [c EXCEPT !.count = Max(0, c.count - 1)]

\* case 'mark_read_ack': console.log only
HandleMarkReadAck(c) == c

\* case 'pong': nothing
HandlePong(c) == c

\* mutant: a message of an unknown type resets the cache
HandleUnknown_Reset(c) == [list |-> <<>>, count |-> 0]

\* default: console.log only
HandleUnknown(c) == c

\* mutant: the list fetched is merged into the local list
RefreshFetched_Merge(c, fetched) ==
  [list |-> fetched \o c.list, count |-> NumUnread(fetched)]

\* mutant: setUnreadCount is not called
RefreshFetched_CountKept(c, fetched) ==
  [list |-> fetched, count |-> c.count]

\* refreshNotifications, the try block after the response arrived
RefreshFetched(c, fetched) ==
  [list |-> fetched, count |-> NumUnread(fetched)]

\* refreshNotifications, the !isAuthenticated branch
RefreshCleared(c) == [list |-> <<>>, count |-> 0]

SetCache(t, c) ==
  /\ notifications' = [notifications EXCEPT ![t] = c.list]
  /\ unreadCount' = [unreadCount EXCEPT ![t] = c.count]

\* a request of refreshNotifications in flight; since = size of the store
\* when the request was issued (history)
FetchReq(origin) ==
  [origin |-> origin, since |-> Len(store), done |-> FALSE, snap |-> <<>>]

\* refreshNotifications up to the await
refreshNotifications(t, origin) ==
  IF ~isAuthenticated(t)
    THEN /\ SetCache(t, RefreshCleared(Cache(t)))
         /\ UNCHANGED fetches
    ELSE /\ Cardinality(fetches[t]) < MaxFetch
         /\ fetches' = [fetches EXCEPT ![t] = @ \cup {FetchReq(origin)}]
         /\ UNCHANGED <<notifications, unreadCount>>

\* ------------------------------------------------------- useWebSocket
\* a WebSocket that ws.current no longer refers to while its handlers are still
\* attached: closed by disconnect() (CLOSING, close event to come) or replaced
\* by a later connect() (CONNECTING or OPEN)
Sock(st, tok) == [st |-> st, tok |-> tok]

Remove(seq, i) == SubSeq(seq, 1, i - 1) \o SubSeq(seq, i + 1, Len(seq))

\* Math.pow(2, reconnectAttempts.current) * 1000
Delay(n) == (2 ^ n) * 1000

\* a pending setTimeout of onclose: tok is the token of the connect() closure
\* it will call, ref tells whether reconnectTimeout.current holds its handle
Timer(n, tok) == [delay |-> Delay(n), tok |-> tok, ref |-> TRUE]

\* reconnectTimeout.current = <a new handle>
Unref(ts) == [i \in DOMAIN ts |-> [ts[i] EXCEPT !.ref = FALSE]]

\* clearTimeout(reconnectTimeout.current)
ClearTimeout(ts) == SelectSeq(ts, LAMBDA tm : ~tm.ref)

\* the refs and state of one useWebSocket instance; readyState and wsTok are
\* those of ws.current ("CLOSED" and NoToken when it is null or closed)
Hook(t) ==
  [readyState |-> readyState[t], wsTok |-> wsTok[t], others |-> others[t],
   timers |-> timers[t], isConnected |-> isConnected[t],
   reconnectAttempts |-> reconnectAttempts[t]]

\* others and timers are bags: each is kept in one fixed order
TokRank(tok) == IF tok = "r1" THEN 1 ELSE IF tok = "r2" THEN 2 ELSE 3
SockRank(k) ==
  (IF k.st = "CONNECTING" THEN 0 ELSE IF k.st = "OPEN" THEN 4 ELSE 8) + TokRank(k.tok)
TimerRank(tm) == tm.delay + 2 * TokRank(tm.tok) + (IF tm.ref THEN 1 ELSE 0)
SortSocks(ks) == SortSeq(ks, LAMBDA a, b : SockRank(a) < SockRank(b))
SortTimers(ts) == SortSeq(ts, LAMBDA a, b : TimerRank(a) < TimerRank(b))

SetHook(t, h) ==
  /\ readyState' = [readyState EXCEPT ![t] = h.readyState]
  /\ wsTok' = [wsTok EXCEPT ![t] = h.wsTok]
  /\ others' = [others EXCEPT ![t] = SortSocks(h.others)]
  /\ timers' = [timers EXCEPT ![t] = SortTimers(h.timers)]
  /\ isConnected' = [isConnected EXCEPT ![t] = h.isConnected]
  /\ reconnectAttempts' = [reconnectAttempts EXCEPT ![t] = h.reconnectAttempts]

\* mutant: the socket is opened on the bare url, without ?token=
connect_NoCredential(h, tok) ==
  IF tok = NoToken \/ h.readyState = "OPEN"
    THEN h
    ELSE [h EXCEPT !.readyState = "CONNECTING",
                   !.wsTok = NoToken,
                   !.others = IF h.readyState = "CONNECTING"
                                THEN Append(@, Sock("CONNECTING", h.wsTok))
                                ELSE @]

\* connect() of the closure that holds tok (isAuthenticated is !!tok there)
connect(h, tok) ==
  IF tok = NoToken \/ h.readyState = "OPEN"
    THEN h
    ELSE [h EXCEPT !.readyState = "CONNECTING",
                   !.wsTok = tok,
                   !.others = IF h.readyState = "CONNECTING"
                                THEN Append(@, Sock("CONNECTING", h.wsTok))
                                ELSE @]

\* disconnect()
disconnect(h) ==
  [h EXCEPT !.timers = ClearTimeout(@),
            !.others = IF h.readyState \in {"CONNECTING", "OPEN"}
                         THEN Append(@, Sock("CLOSING", h.wsTok))
                         ELSE @,
            !.readyState = "CLOSED",
            !.wsTok = NoToken,
            !.isConnected = FALSE]

\* body of ws.onclose of a socket made by the connect() closure that held tok
AfterClose(h, tok) ==
  [h EXCEPT !.isConnected = FALSE,
            !.timers = IF tok # NoToken /\ h.reconnectAttempts < maxReconnectAttempts
                         THEN Append(Unref(@), Timer(h.reconnectAttempts, tok))
                         ELSE @]

\* body of ws.onopen
AfterOpen(h) == [h EXCEPT !.isConnected = TRUE, !.reconnectAttempts = 0]

\* the bounds on the sockets and timers one hook may leave behind
WithinBounds(h) == Len(h.others) <= MaxOthers /\ Len(h.timers) <= MaxTimers

\* Credential verifier: the recipient a credential stands for
Verify(tok) == IF tok \in Recipients THEN tok ELSE NoRcpt

\* the setTimeout callback of onclose: reconnectAttempts.current++; connect()
reconnect(t, i) ==
  /\ i \in DOMAIN timers[t]
  /\ LET tm == timers[t][i]
         h == connect([Hook(t) EXCEPT !.timers = Remove(@, i),
                                      !.reconnectAttempts = @ + 1], tm.tok)
     IN  /\ WithinBounds(h)
         /\ SetHook(t, h)
         /\ last' = [NoLast EXCEPT !.op = IF readyState[t] = "OPEN"
                                            THEN "already_connected"
                                            ELSE "reconnect",
                                   !.tab = t,
                                   !.id = h.reconnectAttempts,
                                   !.count = tm.delay, !.origin = tm.tok]
  /\ UNCHANGED <<token, lastMessage, effectPending,
                 notifications, unreadCount, fetches>>
  /\ UNCHANGED serverVars
  /\ UNCHANGED <<offlinePub, raced, applied, markTrack>>
  /\ UNCHANGED countVars
  /\ UNCHANGED <<pingInterval, webVars, heartbeat>>

\* ws.onopen of ws.current, together with the server side of the handshake:
\* the credential is verified, the connection enters Open, is registered and
\* connection_ack is emitted
onopen(t) ==
  /\ readyState[t] = "CONNECTING"
  /\ Verify(wsTok[t]) # NoRcpt
  /\ SetHook(t, [AfterOpen(Hook(t)) EXCEPT !.readyState = "OPEN"])
  /\ registry' = registry \cup {t}
  /\ heartbeat' = [heartbeat EXCEPT ![t] = 0]
  /\ wire' = [wire EXCEPT ![t] = <<Msg("connection_ack", 0)>>]
  /\ last' = NoLast
  /\ UNCHANGED <<token, lastMessage, effectPending,
                 notifications, unreadCount, fetches>>
  /\ UNCHANGED <<store, disp>>
  /\ UNCHANGED <<offlinePub, raced, applied, markTrack>>
  /\ UNCHANGED countVars
  /\ UNCHANGED <<pingInterval, webVars>>

\* event.data that JSON.parse rejects
Malformed == [type |-> "malformed", id |-> 0]

\* JSON.parse(event.data) returns
Parses(m) == m # Malformed

\* mutant: the text received is stored although it did not parse
AfterMessage_Unparsed(cur, m) == m

\* lastMessage after ws.onmessage: setLastMessage(message) in the try block,
\* console.error in the catch block
AfterMessage(cur, m) == IF Parses(m) THEN m ELSE cur

\* ws.onmessage for the frame m
Received(t, m) ==
  /\ readyState[t] = "OPEN"
  /\ lastMessage' = [lastMessage EXCEPT ![t] = AfterMessage(@, m)]
  /\ effectPending' = [effectPending EXCEPT ![t] = @ \/ Parses(m)]
  /\ last' = IF ~Parses(m)
               THEN LastOp("malformed", t, 0, <<>>, "dropped", FALSE)
               ELSE IF effectPending[t]
               THEN LastOp("overwrite", t, lastMessage[t].id, <<>>,
                           lastMessage[t].type, FALSE)
               ELSE NoLast
  /\ UNCHANGED <<token, readyState, isConnected,
                 notifications, unreadCount, fetches>>
  /\ UNCHANGED <<store, registry, disp>>
  /\ UNCHANGED countVars
  /\ UNCHANGED auxVars
  /\ UNCHANGED <<offlinePub, raced, applied, markTrack>>

\* the next frame of the connection is handed to ws.onmessage
onmessage(t) ==
  /\ wire[t] # <<>>
  /\ Received(t, Head(wire[t]))
  /\ wire' = [wire EXCEPT ![t] = Tail(@)]

\* ws.onclose of ws.current (transport close, or the handshake refused),
\* together with the server unregistering the connection; frames still in
\* flight are gone
onclose(t) ==
  /\ readyState[t] \in {"CONNECTING", "OPEN"}
  /\ LET h == [AfterClose(Hook(t), wsTok[t]) EXCEPT !.readyState = "CLOSED",
                                                     !.wsTok = NoToken]
     IN  WithinBounds(h) /\ SetHook(t, h)
  /\ registry' = registry \ {t}
  /\ heartbeat' = [heartbeat EXCEPT ![t] = 0]
  /\ wire' = [wire EXCEPT ![t] = <<>>]
  /\ last' = NoLast
  /\ raced' = [raced EXCEPT ![t] = {}]
  /\ applied' = [applied EXCEPT ![t] = {}]
  /\ markTrack' = IF t \in markTrack.to \ markTrack.done
                    THEN NoTrack ELSE markTrack
  /\ UNCHANGED <<token, lastMessage, effectPending,
                 notifications, unreadCount, fetches>>
  /\ UNCHANGED <<store, disp>>
  /\ UNCHANGED offlinePub
  /\ UNCHANGED countVars
  /\ UNCHANGED <<pingInterval, webVars>>

\* onopen of a socket that ws.current no longer refers to
onopenOther(t, i) ==
  /\ i \in DOMAIN others[t]
  /\ others[t][i].st = "CONNECTING"
  /\ Verify(others[t][i].tok) # NoRcpt
  /\ SetHook(t, [AfterOpen(Hook(t)) EXCEPT !.others[i].st = "OPEN"])
  /\ last' = NoLast
  /\ UNCHANGED <<token, lastMessage, effectPending,
                 notifications, unreadCount, fetches>>
  /\ UNCHANGED serverVars
  /\ UNCHANGED <<offlinePub, raced, applied, markTrack>>
  /\ UNCHANGED countVars
  /\ UNCHANGED <<pingInterval, webVars, heartbeat>>

\* onclose of a socket that ws.current no longer refers to: the close event of
\* a socket closed by disconnect(), or the transport close of a replaced one
oncloseOther(t, i) ==
  /\ i \in DOMAIN others[t]
  /\ LET h == AfterClose([Hook(t) EXCEPT !.others = Remove(@, i)],
                         others[t][i].tok)
     IN  WithinBounds(h) /\ SetHook(t, h)
  /\ last' = NoLast
  /\ UNCHANGED <<token, lastMessage, effectPending,
                 notifications, unreadCount, fetches>>
  /\ UNCHANGED serverVars
  /\ UNCHANGED <<offlinePub, raced, applied, markTrack>>
  /\ UNCHANGED countVars
  /\ UNCHANGED <<pingInterval, webVars, heartbeat>>

\* ---------------------------------------------------------------- storage
\* localStorage belongs to the browser: an item written by one tab is what
\* every tab of that browser reads
SetItem(items, t, v) ==
  [u \in Tabs |-> IF browser[u] = browser[t] THEN v ELSE items[u]]

\* the user object login() builds from the credentials
UserOf(tok) == IF tok = NoToken THEN NoUser ELSE tok

\* mutant: only the token is removed
clearAuth_TokenOnly(stTok, stUser) == [token |-> NoToken, user |-> stUser]

\* clearAuth(): removeToken(); removeStoredUser()
clearAuth(stTok, stUser) == [token |-> NoToken, user |-> NoUser]

\* initializeAuth: the state is restored when both items are there
initializeAuth(stTok, stUser) ==
  IF stTok # NoToken /\ stUser # NoUser
    THEN [token |-> stTok, user |-> stUser]
    ELSE [token |-> NoToken, user |-> NoUser]

\* ---------------------------------------------------------- AuthContext
\* login() resolved with access_token tok: setToken, setTokenState, navigate;
\* then the effects on [isAuthenticated, token]: the hook runs the cleanup
\* disconnect() and connect() of the new closure, the provider calls
\* refreshNotifications()
login(t, tok) ==
  /\ token[t] = NoToken
  /\ tok # NoToken
  /\ token' = [token EXCEPT ![t] = tok]
  /\ storedToken' = SetItem(storedToken, t, tok)
  /\ storedUser' = SetItem(storedUser, t, UserOf(tok))
  /\ user' = [user EXCEPT ![t] = UserOf(tok)]
  /\ UNCHANGED browser
  /\ pathname' = [pathname EXCEPT ![t] = PRIVATE_TODOS]
  /\ LET h == connect(disconnect(Hook(t)), tok)
     IN  WithinBounds(h) /\ SetHook(t, h)
  /\ registry' = registry \ {t}
  /\ heartbeat' = [heartbeat EXCEPT ![t] = 0]
  /\ wire' = [wire EXCEPT ![t] = <<>>]
  /\ fetches' = [fetches EXCEPT ![t] = @ \cup {FetchReq("auth")}]
  /\ Cardinality(fetches'[t]) <= MaxFetch
  /\ last' = NoLast
  /\ UNCHANGED <<lastMessage, effectPending, notifications, unreadCount>>
  /\ UNCHANGED <<store, disp>>
  /\ UNCHANGED <<offlinePub, raced, applied, markTrack>>
  /\ UNCHANGED countVars
  /\ lastResponse' = NoResponse
  /\ UNCHANGED pingInterval

\* login() rejected: the catch block runs clearAuth() and rethrows
loginFailed(t) ==
  /\ token[t] = NoToken
  /\ LET c == clearAuth(storedToken[t], storedUser[t])
     IN  /\ storedToken' = SetItem(storedToken, t, c.token)
         /\ storedUser' = SetItem(storedUser, t, c.user)
  /\ last' = [NoLast EXCEPT !.op = "login_failed", !.tab = t, !.origin = "thrown"]
  /\ lastResponse' = NoResponse
  /\ UNCHANGED <<user, browser, pathname>>
  /\ UNCHANGED clientVars
  /\ UNCHANGED serverVars
  /\ UNCHANGED <<offlinePub, raced, applied, markTrack>>
  /\ UNCHANGED countVars
  /\ UNCHANGED <<hookVars, heartbeat>>

\* logout(): clearAuth, setTokenState(null), navigate(HOME); then the effects:
\* the hook runs disconnect() (cleanup and else branch), the provider empties
\* its cache
logout(t) ==
  /\ token[t] # NoToken
  /\ token' = [token EXCEPT ![t] = NoToken]
  /\ LET c == clearAuth(storedToken[t], storedUser[t])
     IN  /\ storedToken' = SetItem(storedToken, t, c.token)
         /\ storedUser' = SetItem(storedUser, t, c.user)
  /\ user' = [user EXCEPT ![t] = NoUser]
  /\ UNCHANGED browser
  /\ pathname' = [pathname EXCEPT ![t] = HOME]
  /\ LET h == disconnect(Hook(t))
     IN  WithinBounds(h) /\ SetHook(t, h)
  /\ registry' = registry \ {t}
  /\ heartbeat' = [heartbeat EXCEPT ![t] = 0]
  /\ wire' = [wire EXCEPT ![t] = <<>>]
  /\ SetCache(t, RefreshCleared(Cache(t)))
  /\ last' = [NoLast EXCEPT !.op = "logout", !.tab = t]
  /\ raced' = [raced EXCEPT ![t] = {}]
  /\ applied' = [applied EXCEPT ![t] = {}]
  /\ markTrack' = IF t \in markTrack.to \ markTrack.done
                    THEN NoTrack ELSE markTrack
  /\ UNCHANGED <<lastMessage, effectPending, fetches>>
  /\ UNCHANGED <<store, disp>>
  /\ UNCHANGED offlinePub
  /\ UNCHANGED countVars
  /\ lastResponse' = NoResponse
  /\ UNCHANGED pingInterval

\* ---------------------------------------------------------- axiosConfig
\* the pieces a path is made of, and the paths up to MaxPath pieces
Pieces == {"/", "/login", "/register", "/todos", "/public", "/profile"}

RECURSIVE PathsUpTo(_)
PathsUpTo(n) ==
  IF n = 0 THEN {}
  ELSE PathsUpTo(n - 1) \cup [1..n -> Pieces]

\* currentPath.includes(piece)
includes(path, piece) == \E i \in DOMAIN path : path[i] = piece

\* the HTTP statuses a response can carry; NoStatus is an error without a
\* response (error.response undefined)
NoStatus == 0
Statuses == {NoStatus, 200, 401, 403, 500}

\* validateStatus (axios default): a 2xx response is fulfilled
Fulfilled(st) == st \in 200..299

\* mutant: the redirect does not look at the current path
responseInterceptor_AlwaysRedirect(st, tok, path) ==
  IF Fulfilled(st) THEN [token |-> tok, path |-> path, outcome |-> "fulfilled"]
  ELSE IF st = 401 THEN [token |-> NoToken, path |-> LOGIN, outcome |-> "rejected"]
  ELSE [token |-> tok, path |-> path, outcome |-> "rejected"]

\* axiosInstance.interceptors.response: the stored token, window.location and
\* the promise after a response of status st
responseInterceptor(st, tok, path) ==
  IF Fulfilled(st) THEN [token |-> tok, path |-> path, outcome |-> "fulfilled"]
  ELSE IF st = 401
    THEN [token |-> NoToken,
          path |-> IF ~includes(path, "/login") /\ ~includes(path, "/register")
                     THEN LOGIN ELSE path,
          outcome |-> "rejected"]
  ELSE [token |-> tok, path |-> path, outcome |-> "rejected"]

\* window.location.href = '/login' loads the document anew: the tab's React
\* state and its sockets and timers are gone, the token state is read from
\* the storage again
Reload(t, stTok, stUser) ==
  /\ token' = [token EXCEPT ![t] = initializeAuth(stTok, stUser).token]
  /\ user' = [user EXCEPT ![t] = initializeAuth(stTok, stUser).user]
  /\ SetHook(t, connect([readyState |-> "CLOSED", isConnected |-> FALSE,
                         wsTok |-> NoToken, others |-> <<>>, timers |-> <<>>,
                         reconnectAttempts |-> 0],
                        initializeAuth(stTok, stUser).token))
  /\ pingInterval' = [pingInterval EXCEPT ![t] = FALSE]
  /\ lastMessage' = [lastMessage EXCEPT ![t] = NoMsg]
  /\ effectPending' = [effectPending EXCEPT ![t] = FALSE]
  /\ SetCache(t, RefreshCleared(Cache(t)))
  /\ fetches' = [fetches EXCEPT ![t] =
                   IF initializeAuth(stTok, stUser).token = NoToken
                     THEN {} ELSE {FetchReq("auth")}]
  /\ registry' = registry \ {t}
  /\ heartbeat' = [heartbeat EXCEPT ![t] = 0]
  /\ wire' = [wire EXCEPT ![t] = <<>>]
  /\ raced' = [raced EXCEPT ![t] = {}]
  /\ applied' = [applied EXCEPT ![t] = {}]
  /\ markTrack' = IF t \in markTrack.to \ markTrack.done
                    THEN NoTrack ELSE markTrack

\* a request of the tab is answered with status st
respond(t, st) ==
  LET r == responseInterceptor(st, storedToken[t], pathname[t])
  IN  /\ storedToken' = SetItem(storedToken, t, r.token)
      /\ UNCHANGED <<storedUser, browser>>
      /\ pathname' = [pathname EXCEPT ![t] = r.path]
      /\ lastResponse' = [tab |-> t, status |-> st, token |-> storedToken[t],
                          path |-> pathname[t], outcome |-> r.outcome]
      /\ IF r.path # pathname[t]
           THEN Reload(t, r.token, storedUser[t])
           ELSE /\ UNCHANGED clientVars
                /\ UNCHANGED user
                /\ UNCHANGED <<registry, wire, heartbeat, hookVars>>
                /\ UNCHANGED <<raced, applied, markTrack>>
      /\ last' = NoLast
      /\ UNCHANGED <<store, disp, offlinePub>>
      /\ UNCHANGED countVars

\* the user moves to another page of the application (client-side routing)
navigate(t, p) ==
  /\ p # pathname[t]
  /\ pathname' = [pathname EXCEPT ![t] = p]
  /\ lastResponse' = NoResponse
  /\ last' = NoLast
  /\ UNCHANGED <<storedToken, storedUser, user, browser>>
  /\ UNCHANGED clientVars
  /\ UNCHANGED serverVars
  /\ UNCHANGED <<offlinePub, raced, applied, markTrack>>
  /\ UNCHANGED countVars
  /\ UNCHANGED <<hookVars, heartbeat>>

\* the document is loaded (the tab is opened or reloaded): initializeAuth,
\* then the auth effects of the hook and the provider
startup(t) ==
  /\ Reload(t, storedToken[t], storedUser[t])
  /\ last' = [NoLast EXCEPT !.op = "startup", !.tab = t]
  /\ lastResponse' = NoResponse
  /\ UNCHANGED <<storedToken, storedUser, browser, pathname>>
  /\ UNCHANGED <<store, disp, offlinePub>>
  /\ UNCHANGED countVars

\* ------------------------------------------------------------ heartbeat
\* the provider's effect on [isConnected, sendMessage]: setInterval when
\* isConnected, clearInterval (the cleanup) when it no longer is
pingEffect(t) ==
  /\ pingInterval[t] # isConnected[t]
  /\ pingInterval' = [pingInterval EXCEPT ![t] = isConnected[t]]
  /\ last' = NoLast
  /\ UNCHANGED clientVars
  /\ UNCHANGED serverVars
  /\ UNCHANGED <<offlinePub, raced, applied, markTrack>>
  /\ UNCHANGED countVars
  /\ UNCHANGED <<wsTok, others, reconnectAttempts, timers, webVars, heartbeat>>

\* mutant: sendMessage sends unless the socket is closed
CanSend_UnlessClosed(t) == readyState[t] # "CLOSED"

\* sendMessage: ws.current?.readyState === WebSocket.OPEN
CanSend(t) == readyState[t] = "OPEN"

\* the interval fires: sendMessage({type: 'ping'}). A ping that reaches the
\* server touches the registry entry; the pong comes back (pong) or not.
pingTick(t, pong) ==
  /\ pingInterval[t]
  /\ IF CanSend(t)
       THEN /\ heartbeat' = [heartbeat EXCEPT ![t] = 0]
            /\ IF pong /\ t \in registry
                 THEN /\ Len(wire[t]) < MaxWire
                      /\ wire' = [wire EXCEPT ![t] = Append(@, Msg("pong", 0))]
                 ELSE /\ ~pong
                      /\ UNCHANGED wire
            /\ last' = LastOp("ping", t, 0, <<>>, "sent", FALSE)
       ELSE /\ ~pong
            /\ UNCHANGED <<heartbeat, wire>>
            /\ last' = LastOp("ping", t, 0, <<>>, "skipped", FALSE)
  /\ UNCHANGED clientVars
  /\ UNCHANGED <<store, registry, disp>>
  /\ UNCHANGED <<offlinePub, raced, applied, markTrack>>
  /\ UNCHANGED countVars
  /\ UNCHANGED <<hookVars, webVars>>

\* the liveness window, in heartbeat periods (60 s with a 30 s heartbeat)
LivenessWindow == 2

\* the entries the periodic sweep keeps: those touched within the window
Sweep(reg) == {t \in reg : heartbeat[t] < LivenessWindow}

\* a heartbeat period passes without a touch; the sweep has run before
tick ==
  /\ registry # {}
  /\ Sweep(registry) = registry
  /\ heartbeat' = [t \in Tabs |-> IF t \in registry THEN heartbeat[t] + 1
                                                   ELSE heartbeat[t]]
  /\ last' = NoLast
  /\ UNCHANGED clientVars
  /\ UNCHANGED <<store, registry, wire, disp>>
  /\ UNCHANGED <<offlinePub, raced, applied, markTrack>>
  /\ UNCHANGED countVars
  /\ UNCHANGED <<hookVars, webVars>>

\* the periodic sweep evicts the stale entries; the transport close reaches
\* the client later (onclose)
sweep ==
  /\ Sweep(registry) # registry
  /\ registry' = Sweep(registry)
  /\ heartbeat' = [t \in Tabs |-> IF t \in Sweep(registry) THEN heartbeat[t] ELSE 0]
  /\ last' = NoLast
  /\ UNCHANGED clientVars
  /\ UNCHANGED <<store, wire, disp>>
  /\ UNCHANGED <<offlinePub, raced, applied, markTrack>>
  /\ UNCHANGED countVars
  /\ UNCHANGED <<hookVars, webVars>>

\* ------------------------------------------ NotificationProvider effects
\* the effect on [lastMessage], one action per case of the switch
EffectFrame(t) ==
  /\ effectPending' = [effectPending EXCEPT ![t] = FALSE]
  /\ UNCHANGED <<token, readyState, isConnected, lastMessage>>
  /\ UNCHANGED serverVars
  /\ UNCHANGED offlinePub
  /\ UNCHANGED countVars
  /\ UNCHANGED auxVars

EffectConnectionAck(t) ==
  /\ effectPending[t]
  /\ lastMessage[t].type = "connection_ack"
  /\ refreshNotifications(t, "ack")
  /\ last' = LastOp("connection_ack", t, 0, <<>>, "ack", FALSE)
  /\ EffectFrame(t)
  /\ UNCHANGED <<raced, applied, markTrack>>

EffectNewNotification(t) ==
  /\ effectPending[t]
  /\ lastMessage[t].type = "new_notification"
  /\ Len(notifications[t]) < MaxList
  /\ LET data == [id |-> lastMessage[t].id, is_read |-> FALSE]
     IN  SetCache(t, HandleNewNotification(Cache(t), data))
  /\ last' = LastOp("new_notification", t, lastMessage[t].id, <<>>, "push", FALSE)
  /\ applied' = [applied EXCEPT ![t] = @ \cup ({lastMessage[t].id} \cap raced[t])]
  /\ EffectFrame(t)
  /\ UNCHANGED <<fetches, raced, markTrack>>

EffectMarkedRead(t) ==
  /\ effectPending[t]
  /\ lastMessage[t].type = "notification_marked_read"
  /\ SetCache(t, HandleMarkedRead(Cache(t), lastMessage[t].id))
  /\ last' = LastOp("notification_marked_read", t, lastMessage[t].id, <<>>, "push", FALSE)
  /\ markTrack' = IF lastMessage[t].id = markTrack.id /\ t \in markTrack.to
                    THEN [markTrack EXCEPT !.done = @ \cup {t}]
                    ELSE markTrack
  /\ EffectFrame(t)
  /\ UNCHANGED <<fetches, raced, applied>>

EffectAllMarkedRead(t) ==
  /\ effectPending[t]
  /\ lastMessage[t].type = "notifications_all_marked_read"
  /\ SetCache(t, HandleAllMarkedRead(Cache(t)))
  /\ last' = LastOp("notifications_all_marked_read", t, 0, <<>>, "push", FALSE)
  /\ EffectFrame(t)
  /\ UNCHANGED <<fetches, raced, applied, markTrack>>

\* the types the switch has a case for
RecognizedTypes ==
  {"connection_ack", "new_notification", "notification_marked_read",
   "notifications_all_marked_read", "mark_read_ack", "pong"}

EffectMarkReadAck(t) ==
  /\ effectPending[t]
  /\ lastMessage[t].type = "mark_read_ack"
  /\ SetCache(t, HandleMarkReadAck(Cache(t)))
  /\ last' = LastOp("mark_read_ack", t, lastMessage[t].id, <<>>, "push", FALSE)
  /\ EffectFrame(t)
  /\ UNCHANGED <<fetches, raced, applied, markTrack>>

EffectPong(t) ==
  /\ effectPending[t]
  /\ lastMessage[t].type = "pong"
  /\ SetCache(t, HandlePong(Cache(t)))
  /\ last' = LastOp("pong", t, 0, <<>>, "push", FALSE)
  /\ EffectFrame(t)
  /\ UNCHANGED <<fetches, raced, applied, markTrack>>

EffectUnknown(t) ==
  /\ effectPending[t]
  /\ lastMessage[t].type \notin RecognizedTypes
  /\ SetCache(t, HandleUnknown(Cache(t)))
  /\ last' = LastOp("unknown", t, 0, <<>>, "push", FALSE)
  /\ EffectFrame(t)
  /\ UNCHANGED <<fetches, raced, applied, markTrack>>

\* ------------------------------------- refreshNotifications, after the await
\* GET /api/v1/notifications served: the response carries listFor(recipient)
ListNotifications(t, f) ==
  /\ f \in fetches[t]
  /\ ~f.done
  /\ fetches' = [fetches EXCEPT ![t] =
                   (@ \ {f}) \cup {[f EXCEPT !.done = TRUE,
                                             !.snap = listFor(token[t])]}]
  /\ last' = NoLast
  /\ UNCHANGED <<token, readyState, isConnected, lastMessage, effectPending,
                 notifications, unreadCount>>
  /\ UNCHANGED serverVars
  /\ UNCHANGED <<offlinePub, raced, applied, markTrack>>
  /\ UNCHANGED countVars
  /\ UNCHANGED auxVars

\* the response arrives with the list fetched: setNotifications(fetched),
\* setUnreadCount(unread)
Resolve(t, f, fetched) ==
  /\ fetches' = [fetches EXCEPT ![t] = @ \ {f}]
  /\ SetCache(t, RefreshFetched(Cache(t), fetched))
  /\ last' = LastOp("refresh", t, f.since, fetched, f.origin, TRUE)
  /\ UNCHANGED <<token, readyState, isConnected, lastMessage, effectPending>>
  /\ UNCHANGED serverVars
  /\ UNCHANGED countVars
  /\ UNCHANGED auxVars
  /\ UNCHANGED <<offlinePub, raced, applied, markTrack>>

FetchResolved(t, f) ==
  /\ f \in fetches[t]
  /\ f.done
  /\ Resolve(t, f, f.snap)

\* mutant: a failed fetch empties the cache
RefreshFailed_Cleared(c) == [list |-> <<>>, count |-> 0]

\* refreshNotifications, catch block: console.error only
RefreshFailed(c) == c

\* the request fails: the catch block logs and changes nothing
FetchRejected(t, f) ==
  /\ f \in fetches[t]
  /\ fetches' = [fetches EXCEPT ![t] = @ \ {f}]
  /\ last' = LastOp("refresh_failed", t, 0, <<>>, f.origin, FALSE)
  /\ raced' = [raced EXCEPT ![t] = {}]
  /\ applied' = [applied EXCEPT ![t] = {}]
  /\ SetCache(t, RefreshFailed(Cache(t)))
  /\ UNCHANGED <<token, readyState, isConnected, lastMessage, effectPending>>
  /\ UNCHANGED serverVars
  /\ UNCHANGED <<offlinePub, markTrack>>
  /\ UNCHANGED countVars
  /\ UNCHANGED auxVars

\* -------------------------------------------------------- Push Channel
\* push m down every open connection of recipient r (per-connection FIFO)
CanBroadcast(r) == \A t \in connectionsFor(r) : Len(wire[t]) < MaxWire

\* mutant: the push goes to every socket of the recipient, registered or not
Broadcast_EverySocket(r, m) ==
  [t \in Tabs |-> IF token[t] = r /\ readyState[t] = "OPEN"
                    THEN Append(wire[t], m) ELSE wire[t]]

Broadcast(r, m) ==
  [t \in Tabs |-> IF t \in connectionsFor(r) THEN Append(wire[t], m) ELSE wire[t]]

PendingMark(id) ==
  \E t \in Tabs :
    \/ \E i \in DOMAIN wire[t] : wire[t][i] = Msg("notification_marked_read", id)
    \/ effectPending[t] /\ lastMessage[t] = Msg("notification_marked_read", id)

\* mutant: markAsRead marks the entry read at once (optimistic update)
AfterMarkAsRead_Optimistic(c, id) ==
  [list |-> [i \in DOMAIN c.list |->
               IF c.list[i].id = id THEN [c.list[i] EXCEPT !.is_read = TRUE]
                                    ELSE c.list[i]],
   count |-> Max(0, c.count - 1)]

\* the cache after markAsRead, resolved or rejected: no setter is called
AfterMarkAsRead(c, id) == c

\* the cache after markAllAsRead, resolved or rejected: no setter is called
AfterMarkAllAsRead(c) == c

\* what is left of the provider's state by its own requests
MarkFrame(t) ==
  /\ UNCHANGED <<token, readyState, isConnected, lastMessage, effectPending, fetches>>
  /\ UNCHANGED <<registry, disp>>
  /\ UNCHANGED <<offlinePub, raced, applied>>
  /\ marks < MaxMarks
  /\ marks' = marks + 1
  /\ UNCHANGED auxVars

\* markAsRead(notificationId): PUT /api/v1/notifications/{id}/read; the server
\* updates the store and pushes notification_marked_read to every open
\* connection of the recipient. The provider's own state is not touched.
markAsRead(t, id) ==
  /\ isAuthenticated(t)
  /\ id \in IdsOf(notifications[t])
  /\ id \in DOMAIN store
  /\ store[id].user = token[t]
  /\ CanBroadcast(token[t])
  /\ store' = [store EXCEPT ![id].is_read = TRUE]
  /\ wire' = Broadcast(token[t], Msg("notification_marked_read", id))
  /\ markTrack' = IF PendingMark(id)
                    THEN NoTrack
                    ELSE [id |-> id, to |-> connectionsFor(token[t]), done |-> {},
                          racing |-> {u \in Tabs : fetches[u] # {}}]
  /\ last' = NoLast
  /\ SetCache(t, AfterMarkAsRead(Cache(t), id))
  /\ MarkFrame(t)

\* the PUT of markAsRead fails: the catch block logs, nothing is rethrown
markAsReadFailed(t, id) ==
  /\ isAuthenticated(t)
  /\ id \in IdsOf(notifications[t])
  /\ last' = [NoLast EXCEPT !.op = "mark_failed", !.tab = t, !.id = id,
                            !.origin = "swallowed"]
  /\ SetCache(t, AfterMarkAsRead(Cache(t), id))
  /\ MarkFrame(t)
  /\ UNCHANGED <<store, wire, markTrack>>

\* markAllAsRead(): PUT /api/v1/notifications/mark-all-read
markAllAsRead(t) ==
  /\ isAuthenticated(t)
  /\ CanBroadcast(token[t])
  /\ store' = [i \in DOMAIN store |->
                 IF store[i].user = token[t]
                   THEN [store[i] EXCEPT !.is_read = TRUE]
                   ELSE store[i]]
  /\ wire' = Broadcast(token[t], Msg("notifications_all_marked_read", 0))
  /\ last' = NoLast
  /\ SetCache(t, AfterMarkAllAsRead(Cache(t)))
  /\ MarkFrame(t)
  /\ UNCHANGED markTrack

\* the PUT of markAllAsRead fails: the catch block logs, nothing is rethrown
markAllAsReadFailed(t) ==
  /\ isAuthenticated(t)
  /\ last' = [NoLast EXCEPT !.op = "mark_all_failed", !.tab = t,
                            !.origin = "swallowed"]
  /\ SetCache(t, AfterMarkAllAsRead(Cache(t)))
  /\ MarkFrame(t)
  /\ UNCHANGED <<store, wire, markTrack>>

\* -------------------------------------------------- Broadcast Dispatcher
Idle == [rcpts |-> {}, todo |-> {}, cur |-> NoRcpt, failed |-> {}, pushed |-> {}]

\* publish(event): the dispatcher takes up an event for the recipient set rs
publish(rs) ==
  /\ disp.todo = {}
  /\ disp.cur = NoRcpt
  /\ rs # {}
  /\ Len(store) + Cardinality(rs) <= MaxId
  /\ disp' = [Idle EXCEPT !.rcpts = rs, !.todo = rs]
  /\ last' = NoLast
  /\ UNCHANGED clientVars
  /\ UNCHANGED <<store, registry, wire>>
  /\ UNCHANGED <<offlinePub, raced, applied, markTrack>>
  /\ UNCHANGED countVars
  /\ UNCHANGED auxVars

\* step 1 succeeded: the record (read = false) is in the store
AfterAppend(d, r) == [d EXCEPT !.todo = @ \ {r}, !.cur = r]

\* mutant: the push is attempted although the write failed
AfterAppendFailed_StillPushes(d, r) ==
  [d EXCEPT !.todo = @ \ {r}, !.failed = @ \cup {r}, !.cur = r]

\* step 1 failed: the recipient's delivery is abandoned, no push
AfterAppendFailed(d, r) == [d EXCEPT !.todo = @ \ {r}, !.failed = @ \cup {r}]

StoreAppend(r) ==
  /\ r \in disp.todo
  /\ disp.cur = NoRcpt
  /\ store' = Append(store, [user |-> r, is_read |-> FALSE])
  /\ disp' = AfterAppend(disp, r)
  /\ offlinePub' = IF connectionsFor(r) = {}
                     THEN offlinePub \cup {Len(store) + 1}
                     ELSE offlinePub
  /\ last' = NoLast
  /\ UNCHANGED clientVars
  /\ UNCHANGED <<registry, wire>>
  /\ UNCHANGED <<raced, applied, markTrack>>
  /\ UNCHANGED countVars
  /\ UNCHANGED auxVars

StoreAppendFailed(r) ==
  /\ r \in disp.todo
  /\ disp.cur = NoRcpt
  /\ disp' = AfterAppendFailed(disp, r)
  /\ last' = NoLast
  /\ UNCHANGED clientVars
  /\ UNCHANGED <<store, registry, wire>>
  /\ UNCHANGED <<offlinePub, raced, applied, markTrack>>
  /\ UNCHANGED countVars
  /\ UNCHANGED auxVars

\* steps 2 and 3: new_notification, carrying the record just appended, goes to
\* every open connection of the recipient
Push ==
  /\ disp.cur # NoRcpt
  /\ CanBroadcast(disp.cur)
  /\ wire' = Broadcast(disp.cur, Msg("new_notification", Len(store)))
  /\ disp' = [disp EXCEPT !.cur = NoRcpt, !.pushed = @ \cup {disp.cur}]
  /\ raced' = [t \in Tabs |->
                 IF /\ t \in connectionsFor(disp.cur)
                    /\ \E f \in fetches[t] : f.origin = "ack"
                   THEN raced[t] \cup {Len(store)}
                   ELSE raced[t]]
  /\ last' = NoLast
  /\ UNCHANGED clientVars
  /\ UNCHANGED <<store, registry>>
  /\ UNCHANGED <<offlinePub, applied, markTrack>>
  /\ UNCHANGED countVars
  /\ UNCHANGED auxVars

\* ------------------------------------------------------- environment
\* every frame a push connection can carry
Frames ==
  {Msg("connection_ack", 0), Msg("notifications_all_marked_read", 0)}
  \cup {Msg(ty, id) : ty \in {"new_notification", "notification_marked_read"},
                      id \in 1..MaxId}

\* the frames that carry no state change, and one of a type the client does
\* not know
AllFrames ==
  Frames \cup {Msg("mark_read_ack", id) : id \in 1..MaxId}
         \cup {Msg("pong", 0), Msg("todo_updated", 0)}

\* every list the listing endpoint can return: records of ids up to n, newest
\* first, each read or unread
RECURSIVE ListsUpTo(_)
ListsUpTo(n) ==
  IF n = 0 THEN {<<>>}
  ELSE LET older == ListsUpTo(n - 1)
       IN  older \cup {<<[id |-> n, is_read |-> b]>> \o l :
                         b \in BOOLEAN, l \in older}

\* an arbitrary frame m is handed to ws.onmessage (after the frames the
\* connection already carries)
onmessageFrame(t, m) ==
  /\ wire[t] = <<>>
  /\ Received(t, m)
  /\ UNCHANGED wire

\* GET /api/v1/notifications answered with the list l
FetchResolvedWith(t, f, l) ==
  /\ f \in fetches[t]
  /\ ~f.done
  /\ Resolve(t, f, l)

\* ------------------------------------------------------- specifications
\* The tabs with a token are mounted with the token restored from storage: the
\* provider's auth effect has called refreshNotifications() and the hook's auth
\* effect has called connect(). st is the content of the Notification Store.
InitIn(tok, st, br) ==
  /\ token = tok
  /\ readyState = [t \in Tabs |-> IF tok[t] = NoToken THEN "CLOSED" ELSE "CONNECTING"]
  /\ isConnected = [t \in Tabs |-> FALSE]
  /\ lastMessage = [t \in Tabs |-> NoMsg]
  /\ effectPending = [t \in Tabs |-> FALSE]
  /\ notifications = [t \in Tabs |-> <<>>]
  /\ unreadCount = [t \in Tabs |-> 0]
  /\ fetches = [t \in Tabs |->
                  IF tok[t] = NoToken THEN {}
                  ELSE {[origin |-> "auth", since |-> Len(st), done |-> FALSE,
                         snap |-> <<>>]}]
  /\ store = st
  /\ registry = {}
  /\ wire = [t \in Tabs |-> <<>>]
  /\ disp = Idle
  /\ marks = 0
  /\ wsTok = tok
  /\ others = [t \in Tabs |-> <<>>]
  /\ reconnectAttempts = [t \in Tabs |-> 0]
  /\ timers = [t \in Tabs |-> <<>>]
  /\ pingInterval = [t \in Tabs |-> FALSE]
  /\ storedToken = tok
  /\ storedUser = [t \in Tabs |-> UserOf(tok[t])]
  /\ user = [t \in Tabs |-> UserOf(tok[t])]
  /\ browser = br
  /\ pathname = [t \in Tabs |-> IF tok[t] = NoToken THEN HOME ELSE PRIVATE_TODOS]
  /\ lastResponse = NoResponse
  /\ heartbeat = [t \in Tabs |-> 0]
  /\ last = NoLast
  /\ offlinePub = {}
  /\ raced = [t \in Tabs |-> {}]
  /\ applied = [t \in Tabs |-> {}]
  /\ markTrack = NoTrack

\* every tab in a browser of its own
InitWith(tok, st) == InitIn(tok, st, [t \in Tabs |-> t])

OneTab == [t \in Tabs |-> IF t = "A" THEN "r1" ELSE NoToken]
TwoTabs == [t \in Tabs |-> "r1"]
TwoUsers == [t \in Tabs |-> IF t = "A" THEN "r1" ELSE "r2"]

\* one tab, empty store
Init == InitWith(OneTab, <<>>)

\* two tabs of the same recipient; the store holds MaxId unread records that
\* were published before the tabs were opened
InitTwoTabs == InitWith(TwoTabs, [i \in 1..MaxId |-> [user |-> "r1", is_read |-> FALSE]])

\* one tab per recipient, empty store
InitTwoUsers == InitWith(TwoUsers, <<>>)

\* the life of a connection whose handshake succeeds (refused and failed
\* handshakes are the subject of SpecHook)
Socket ==
  \/ \E t \in Tabs : \E i \in DOMAIN timers[t] : reconnect(t, i)
  \/ \E t \in Tabs : onopen(t)
  \/ \E t \in Tabs : onmessage(t)
  \/ \E t \in Tabs : readyState[t] = "OPEN" /\ onclose(t)

Dispatcher ==
  \/ \E rs \in SUBSET ActiveRecipients : publish(rs)
  \/ \E r \in Recipients : StoreAppend(r)
  \/ \E r \in Recipients : StoreAppendFailed(r)
  \/ Push

Resync ==
  \/ \E t \in Tabs : EffectConnectionAck(t)
  \/ \E t \in Tabs : \E f \in fetches[t] : ListNotifications(t, f)
  \/ \E t \in Tabs : \E f \in fetches[t] : FetchResolved(t, f)
  \/ \E t \in Tabs : \E f \in fetches[t] : FetchRejected(t, f)

\* the tabs of the one-tab specifications that hold a token
OneTabs == {t \in Tabs : OneTab[t] # NoToken}

\* the close event of every socket that disconnect() closed has been delivered:
\* it takes a round trip, the user's next login takes seconds
Prompt(t) == \A i \in DOMAIN others[t] : others[t][i].st # "CLOSING"

\* one hook through logins, logouts, refused and failed handshakes, reconnect
\* timers and the heartbeat
NextHook ==
  \/ \E t \in Tabs : onopen(t)
  \/ \E t \in Tabs : onclose(t)
  \/ \E t \in Tabs : \E i \in DOMAIN others[t] : onopenOther(t, i)
  \/ \E t \in Tabs : \E i \in DOMAIN others[t] : oncloseOther(t, i)
  \/ \E t \in Tabs : \E i \in DOMAIN timers[t] : reconnect(t, i)
  \/ \E t \in OneTabs : Prompt(t) /\ login(t, OneTab[t])
  \/ \E t \in Tabs : logout(t)
  \/ \E t \in Tabs : pingEffect(t)
  \/ \E t \in Tabs : \E pong \in BOOLEAN : pingTick(t, pong)

SpecHook == Init /\ [][NextHook]_vars

\* every tab starts logged out
InitLoggedOut == InitWith([t \in Tabs |-> NoToken], <<>>)

\* the first login of each tab, with a token the verifier accepts or rejects:
\* the handshake, its refusal, the reconnect timers and the heartbeat
NextHandshake ==
  \/ \E t \in Tabs : \E tok \in {"r1", Expired} : login(t, tok)
  \/ \E t \in Tabs : onopen(t)
  \/ \E t \in Tabs : onclose(t)
  \/ \E t \in Tabs : \E i \in DOMAIN timers[t] : reconnect(t, i)
  \/ \E t \in Tabs : pingEffect(t)
  \/ \E t \in Tabs : \E pong \in BOOLEAN : pingTick(t, pong)

SpecHandshake == InitLoggedOut /\ [][NextHandshake]_vars

\* one provider against every frame, of known and unknown type; its listing
\* requests fail, so that the cache holds what the frames put there
NextFrames ==
  \/ \E t \in Tabs : onopen(t)
  \/ \E t \in Tabs : \E m \in AllFrames : onmessageFrame(t, m)
  \/ \E t \in Tabs : onmessage(t)
  \/ \E t \in Tabs : EffectConnectionAck(t)
  \/ \E t \in Tabs : EffectNewNotification(t)
  \/ \E t \in Tabs : EffectMarkedRead(t)
  \/ \E t \in Tabs : EffectAllMarkedRead(t)
  \/ \E t \in Tabs : EffectMarkReadAck(t)
  \/ \E t \in Tabs : EffectPong(t)
  \/ \E t \in Tabs : EffectUnknown(t)
  \/ \E t \in Tabs : \E f \in fetches[t] : FetchRejected(t, f)

SpecFrames == Init /\ [][NextFrames]_vars

\* one tab; the store holds unread records of its recipient and has room for
\* one more
InitOneTab ==
  InitWith(OneTab, [i \in 1..(MaxId - 1) |-> [user |-> "r1", is_read |-> FALSE]])

\* every push the server sends to one tab: the events published, the pushes
\* its mark-read requests cause, and the resync
NextOneTab ==
  \/ Dispatcher
  \/ \E t \in Tabs : onopen(t)
  \/ \E t \in Tabs : EffectNewNotification(t)
  \/ \E t \in Tabs : onmessage(t)
  \/ \E t \in Tabs : EffectConnectionAck(t)
  \/ \E t \in Tabs : EffectMarkedRead(t)
  \/ \E t \in Tabs : EffectAllMarkedRead(t)
  \/ \E t \in Tabs : \E f \in fetches[t] : ListNotifications(t, f)
  \/ \E t \in Tabs : \E f \in fetches[t] : FetchResolved(t, f)
  \/ \E t \in Tabs : \E id \in 1..MaxId : markAsRead(t, id)
  \/ \E t \in Tabs : markAllAsRead(t)

SpecOneTab == InitOneTab /\ [][NextOneTab]_vars

\* two tabs of one recipient, heartbeats that may stop, the sweep and the
\* dispatcher; the evicted tab sees the close, its reconnect is the subject of
\* SpecHook
NextEvict ==
  \/ Dispatcher
  \/ tick
  \/ sweep
  \/ \E t \in Tabs : onopen(t)
  \/ \E t \in Tabs : onmessage(t)
  \/ \E t \in Tabs : t \notin registry /\ readyState[t] = "OPEN" /\ onclose(t)
  \/ \E t \in Tabs : pingEffect(t)
  \/ \E t \in Tabs : pingTick(t, FALSE)

SpecEvict == InitWith(TwoTabs, <<>>) /\ [][NextEvict]_vars

\* one tab, logged out at first: logins, page changes and the responses to
\* its requests, of every status
NextAxios ==
  \/ \E t \in OneTabs : \E tok \in Recipients : login(t, tok)
  \/ \E t \in OneTabs : \E p \in PathsUpTo(MaxPath) : navigate(t, p)
  \/ \E t \in OneTabs : \E st \in Statuses : respond(t, st)

SpecAxios == InitLoggedOut /\ [][NextAxios]_vars

\* two tabs of one browser, logged out at first
InitAuth == InitIn([t \in Tabs |-> NoToken], <<>>, [t \in Tabs |-> "b"])

\* the authentication state of two tabs that share a localStorage: logins that
\* succeed and fail, logouts, page loads and the responses to their requests
NextAuth ==
  \/ \E t \in Tabs : login(t, "r1")
  \/ \E t \in Tabs : loginFailed(t)
  \/ \E t \in Tabs : logout(t)
  \/ \E t \in Tabs : startup(t)
  \/ \E t \in Tabs : \E st \in Statuses : respond(t, st)

SpecAuth == InitAuth /\ [][NextAuth]_vars

\* SpecOneTab with mark-read requests that fail
NextMarks ==
  \/ NextOneTab
  \/ \E t \in Tabs : \E id \in 1..MaxId : markAsReadFailed(t, id)
  \/ \E t \in Tabs : markAllAsReadFailed(t)

SpecMarks == InitOneTab /\ [][NextMarks]_vars

\* one provider against well-formed frames and frames that do not parse
NextParse ==
  \/ \E t \in Tabs : onopen(t)
  \/ \E t \in Tabs : \E m \in Frames \cup {Malformed} : onmessageFrame(t, m)
  \/ \E t \in Tabs : onmessage(t)
  \/ \E t \in Tabs : EffectConnectionAck(t)
  \/ \E t \in Tabs : EffectNewNotification(t)
  \/ \E t \in Tabs : EffectMarkedRead(t)
  \/ \E t \in Tabs : EffectAllMarkedRead(t)
  \/ \E t \in Tabs : \E f \in fetches[t] : FetchRejected(t, f)

SpecParse == Init /\ [][NextParse]_vars

\* one tab of a recipient with stored notifications through logouts and logins:
\* the listing requested at mount or at login may be answered before a logout
\* and its response handled after it
NextLogout ==
  \/ \E t \in Tabs : onopen(t)
  \/ \E t \in Tabs : onmessage(t)
  \/ \E t \in Tabs : EffectConnectionAck(t)
  \/ \E t \in Tabs : \E i \in DOMAIN others[t] : oncloseOther(t, i)
  \/ \E t \in Tabs : \E f \in fetches[t] : ListNotifications(t, f)
  \/ \E t \in Tabs : \E f \in fetches[t] : FetchResolved(t, f)
  \/ \E t \in Tabs : logout(t)
  \/ \E t \in OneTabs : Prompt(t) /\ login(t, OneTab[t])

SpecLogout == InitOneTab /\ [][NextLogout]_vars

\* delivery and resync across reconnects, one client
Next ==
  \/ Socket
  \/ Dispatcher
  \/ Resync
  \/ \E t \in Tabs : EffectNewNotification(t)

Spec == Init /\ [][Next]_vars

\* the provider against every sequence of frames and every listing
NextClient ==
  \/ \E t \in Tabs : onopen(t)
  \/ \E t \in Tabs : \E m \in Frames : onmessageFrame(t, m)
  \/ \E t \in Tabs : onmessage(t)
  \/ \E t \in Tabs : EffectConnectionAck(t)
  \/ \E t \in Tabs : EffectNewNotification(t)
  \/ \E t \in Tabs : EffectMarkedRead(t)
  \/ \E t \in Tabs : EffectAllMarkedRead(t)
  \/ \E t \in Tabs : \E f \in fetches[t] : \E l \in ListsUpTo(MaxId) :
       FetchResolvedWith(t, f, l)
  \/ \E t \in Tabs : \E f \in fetches[t] : FetchRejected(t, f)

SpecClient == Init /\ [][NextClient]_vars

\* mark-read across two tabs of one recipient
NextTwoTabs ==
  \/ \E t \in Tabs : onopen(t)
  \/ \E t \in Tabs : onmessage(t)
  \/ \E t \in Tabs : EffectConnectionAck(t)
  \/ \E t \in Tabs : EffectMarkedRead(t)
  \/ \E t \in Tabs : EffectAllMarkedRead(t)
  \/ \E t \in Tabs : \E f \in fetches[t] : ListNotifications(t, f)
  \/ \E t \in Tabs : \E f \in fetches[t] : FetchResolved(t, f)
  \/ \E t \in Tabs : \E id \in 1..MaxId : markAsRead(t, id)
  \/ \E t \in Tabs : markAllAsRead(t)

SpecTwoTabs == InitTwoTabs /\ [][NextTwoTabs]_vars

\* the dispatcher serving two recipients
NextTwoUsers ==
  \/ Socket
  \/ Dispatcher

SpecTwoUsers == InitTwoUsers /\ [][NextTwoUsers]_vars

\* =================================================================== claims
PushOps == {"connection_ack", "new_notification", "notification_marked_read",
            "notifications_all_marked_read"}

AllRead(list) == \A i \in DOMAIN list : list[i].is_read

\* the local entries with this id exist and are all read
AlreadyRead(list, id) ==
  /\ id \in IdsOf(list)
  /\ \A i \in DOMAIN list : list[i].id = id => list[i].is_read

\* C1: after every push message the provider has handled, unreadCount equals
\* the number of entries of notifications whose is_read is false.
C1_UnreadCountMatchesList ==
  last.op \in PushOps =>
    unreadCount[last.tab] = NumUnread(notifications[last.tab])

\* C2: new_notification is deduplicated by id: with the id already in the list,
\* list and unreadCount stay as they were; otherwise the record is prepended
\* and unreadCount grows by exactly 1.
C2_NewNotificationDedup ==
  last.op = "new_notification" =>
    IF last.id \in IdsOf(last.list)
      THEN /\ notifications[last.tab] = last.list
           /\ unreadCount[last.tab] = last.count
      ELSE /\ notifications[last.tab] =
                <<[id |-> last.id, is_read |-> FALSE]>> \o last.list
           /\ unreadCount[last.tab] = last.count + 1

\* C3: notification_marked_read is a no-op when the local entry is already
\* read; otherwise the entry becomes read and unreadCount decreases by 1,
\* floored at 0.
C3_MarkedReadNoOpWhenRead ==
  last.op = "notification_marked_read" =>
    IF AlreadyRead(last.list, last.id)
      THEN /\ notifications[last.tab] = last.list
           /\ unreadCount[last.tab] = last.count
      ELSE /\ IdSeq(notifications[last.tab]) = IdSeq(last.list)
           /\ \A i \in DOMAIN last.list :
                notifications[last.tab][i].is_read =
                  (last.list[i].is_read \/ last.list[i].id = last.id)
           /\ unreadCount[last.tab] = Max(0, last.count - 1)

\* C4: notifications_all_marked_read, from any prior state, yields
\* unreadCount = 0 and is_read = true on every entry, keeps the entries and
\* their order, and applying it again changes nothing.
C4_AllMarkedRead ==
  last.op = "notifications_all_marked_read" =>
    /\ unreadCount[last.tab] = 0
    /\ AllRead(notifications[last.tab])
    /\ IdSeq(notifications[last.tab]) = IdSeq(last.list)
    /\ HandleAllMarkedRead(Cache(last.tab)) = Cache(last.tab)

\* C4 witness: the message was handled on a list of two entries, one of them
\* unread, with a positive unread count
C4_Witness ==
  /\ last.op = "notifications_all_marked_read"
  /\ Len(last.list) = 2
  /\ ~AllRead(last.list)
  /\ last.count > 0

\* C5: connection_ack starts a resync, and a resync that succeeds replaces the
\* local list by the list fetched and sets unreadCount to the number of fetched
\* entries that are not read.
C5_ResyncReplaces ==
  /\ last.op = "refresh" =>
       /\ notifications[last.tab] = last.snap
       /\ unreadCount[last.tab] = NumUnread(last.snap)
  /\ (last.op = "connection_ack" /\ isAuthenticated(last.tab)) =>
       \E f \in fetches[last.tab] : f.origin = "ack" /\ ~f.done

\* C5 witness: the resync started by a connection_ack resolved with a list of
\* read and unread entries over a different local list
C5_Witness ==
  /\ last.op = "refresh"
  /\ last.origin = "ack"
  /\ last.stale
  /\ Len(last.snap) = 2
  /\ NumUnread(last.snap) = 1

\* nothing is on its way to tab t
Quiescent(t) == wire[t] = <<>> /\ ~effectPending[t] /\ fetches[t] = {}

\* C6: a record published while a resync fetch is in flight appears in the
\* local list exactly once and is counted once, once the new_notification push
\* and the fetch response have both been applied, in either order.
C6_NoDuplicateNoLoss ==
  \A t \in Tabs : \A id \in applied[t] :
    fetches[t] = {} =>
      /\ Occurrences(notifications[t], id) = 1
      /\ unreadCount[t] <= Cardinality(IdsOf(notifications[t]))

\* C7: a frame is fully processed before the next one is read: no parsed frame
\* is replaced in lastMessage before the message effect has handled it.
C7_NoFrameOverwritten == last.op # "overwrite"

\* the two tabs hold the same entries, apart from the read flag of id
SameOtherEntries(a, b, id) ==
  /\ IdSeq(notifications[a]) = IdSeq(notifications[b])
  /\ \A i \in DOMAIN notifications[a] :
       notifications[a][i].id # id =>
         notifications[a][i].is_read = notifications[b][i].is_read

\* C8: after tab A marked id as read and both tabs of the recipient have
\* handled notification_marked_read for it, they hold the same unreadCount and
\* the same read flag for id. (Stated for a request served while no tab had a
\* listing in flight, so that no tab applies a list older than the request.)
C8_TabsConverge ==
  \A a, b \in Tabs :
    ( /\ {a, b} \subseteq markTrack.to
      /\ markTrack.racing = {}
      /\ {a, b} \subseteq markTrack.done
      /\ Quiescent(a) /\ Quiescent(b)
      /\ SameOtherEntries(a, b, markTrack.id) )
    => /\ notifications[a] = notifications[b]
       /\ unreadCount[a] = unreadCount[b]

\* the records of recipient r published while r had no open connection and
\* before the store held more than n records
OfflineFor(r, n) == {id \in offlinePub : id <= n /\ store[id].user = r}

\* C9: a record published while the recipient has no open connection is in the
\* store, and the next connection_ack resync puts it, unread, in the local
\* list and counts it in unreadCount.
C9_OfflineRecordResynced ==
  /\ offlinePub \subseteq DOMAIN store
  /\ (last.op = "refresh" /\ last.origin = "ack") =>
       \A id \in OfflineFor(token[last.tab], last.id) :
         ~store[id].is_read =>
           /\ Occurrences(notifications[last.tab], id) = 1
           /\ \E i \in DOMAIN notifications[last.tab] :
                notifications[last.tab][i] = [id |-> id, is_read |-> FALSE]
           /\ unreadCount[last.tab] = NumUnread(notifications[last.tab])
           /\ unreadCount[last.tab] >= 1

\* C9 witness: a connection_ack resync resolved after an offline publish
C9_Witness ==
  /\ last.op = "refresh"
  /\ last.origin = "ack"
  /\ OfflineFor(token[last.tab], last.id) # {}
  /\ unreadCount[last.tab] >= 1
  /\ last.stale

NewNotificationFrames(t) ==
  {wire[t][i] : i \in DOMAIN wire[t]} \cup {lastMessage[t]}

\* C10: new_notification reaches a recipient's connections only for a record
\* that is in the store; a failed store write is never followed by a push to
\* that recipient, and the other recipients of the event are still served.
C10_DurabilityPrecedesVisibility ==
  /\ \A t \in Tabs : \A m \in NewNotificationFrames(t) :
       m.type = "new_notification" =>
         /\ m.id \in DOMAIN store
         /\ store[m.id].user = token[t]
  /\ disp.failed \cap disp.pushed = {}
  /\ disp.cur \notin disp.failed
  /\ (disp.todo = {} /\ disp.cur = NoRcpt) => disp.pushed = disp.rcpts \ disp.failed

\* C10 witness: the write failed for one recipient and the other received the
\* frame
C10_Witness ==
  /\ disp.todo = {}
  /\ disp.cur = NoRcpt
  /\ disp.failed # {}
  /\ \E t \in Tabs :
       /\ token[t] \in disp.pushed
       /\ wire[t] # <<>>
       /\ wire[t][Len(wire[t])] = Msg("new_notification", Len(store))

\* the reconnect attempts are used up and the last socket has closed
Exhausted(t) ==
  reconnectAttempts[t] >= maxReconnectAttempts /\ readyState[t] = "CLOSED"

\* C11: after a transport close the client makes at most 5 consecutive
\* reconnect attempts without a successful open in between; once they are used
\* up no timer is pending, isConnected is false, and the next socket is opened
\* only by an authentication event (a change of token).
C11_ReconnectCapped ==
  [][\A t \in Tabs :
       /\ reconnectAttempts'[t] <= maxReconnectAttempts
       /\ Exhausted(t) =>
            /\ timers[t] = <<>>
            /\ ~isConnected[t]
            /\ readyState'[t] # "CLOSED" => token'[t] # token[t]]_vars

\* C12: the k-th consecutive reconnect attempt after the last successful open
\* (k = 1..5) runs 2^(k-1) seconds after the close that scheduled it: 1, 2, 4,
\* 8, 16 s.
C12_BackoffDoubles ==
  last.op = "reconnect" =>
    /\ last.id \in 1..maxReconnectAttempts
    /\ last.count = (2 ^ (last.id - 1)) * 1000

\* C13: while the user is logged out no reconnect timer is pending and the
\* hook holds no socket that is connecting or open: the close event of the
\* socket that disconnect() closed schedules nothing, and no WebSocket is
\* opened with the old token before the next login.
C13_NoReconnectAfterLogout ==
  \A t \in Tabs :
    token[t] = NoToken =>
      /\ timers[t] = <<>>
      /\ readyState[t] = "CLOSED"
      /\ \A i \in DOMAIN others[t] : others[t][i].st = "CLOSING"

\* the ping effect has run for the current value of isConnected
PingSettled(t) == pingInterval[t] = isConnected[t]

\* C16: while the connection is open the ping interval runs; a ping is sent
\* only while the status is connected and the socket open; a tick of the
\* interval, answered by a pong or not, leaves the socket and the status as
\* they were.
C16_Heartbeat ==
  /\ \A t \in Tabs : (PingSettled(t) /\ readyState[t] = "OPEN") => pingInterval[t]
  /\ (last.op = "ping" /\ last.origin = "sent") =>
       /\ last.conn
       /\ readyState[last.tab] = "OPEN"
  /\ last.op = "ping" => isConnected[last.tab] = last.conn

C14_AckAndPongChangeNothing ==
  last.op \in {"mark_read_ack", "pong"} =>
    /\ notifications[last.tab] = last.list
    /\ unreadCount[last.tab] = last.count
    /\ isConnected[last.tab] = last.conn

\* C14 witness: an acknowledgement for an unread entry of the list was handled
C14_Witness ==
  /\ last.op = "mark_read_ack"
  /\ last.count > 0
  /\ \E i \in DOMAIN last.list :
       last.list[i].id = last.id /\ ~last.list[i].is_read

\* C15: a message of an unknown type is ignored: list, unreadCount and status
\* are as before, the socket stays open and the message effect is free for
\* the next message.
C15_UnknownTypeIgnored ==
  last.op = "unknown" =>
    /\ notifications[last.tab] = last.list
    /\ unreadCount[last.tab] = last.count
    /\ isConnected[last.tab] = last.conn
    /\ readyState[last.tab] = "OPEN"
    /\ ~effectPending[last.tab]

\* C15 witness: the unknown message was handled on a list with an unread entry
C15_Witness ==
  /\ last.op = "unknown"
  /\ last.conn
  /\ last.count > 0
  /\ NumUnread(last.list) > 0

HandlerOps == PushOps \cup {"mark_read_ack", "pong", "unknown"}

C19_EvictedSkipped ==
  [][/\ \A t \in registry' : heartbeat'[t] <= LivenessWindow
     /\ (disp.cur # NoRcpt /\ disp'.cur = NoRcpt) =>
          /\ \A t \in Tabs :
               wire'[t] = IF t \in registry /\ token[t] = disp.cur
                            THEN Append(wire[t], Msg("new_notification", Len(store)))
                            ELSE wire[t]
          /\ disp.cur \in disp'.pushed
          /\ disp'.failed = disp.failed]_vars

HasFrame(t, m) ==
  \/ \E i \in DOMAIN wire[t] : wire[t][i] = m
  \/ lastMessage[t] = m

\* C19 witness: one tab of the recipient was evicted while its socket is still
\* open, and the publish that followed was pushed to the other tab only
C19_Witness ==
  \E t, u \in Tabs :
    /\ token[t] = token[u]
    /\ readyState[t] = "OPEN" /\ t \notin registry
    /\ u \in registry
    /\ token[u] \in disp.pushed /\ disp.failed = {}
    /\ Len(store) > 0
    /\ HasFrame(u, Msg("new_notification", Len(store)))
    /\ ~HasFrame(t, Msg("new_notification", Len(store)))

\* C20: after a response of status 401 the stored token is gone, the page is
\* /login unless the path held /login or /register (then it is unchanged), and
\* the promise is rejected; after a response of any other status the stored
\* token is the one it was.
C20_Unauthorized ==
  lastResponse.tab # "none" =>
    LET t == lastResponse.tab
        onAuthPage == \/ includes(lastResponse.path, "/login")
                      \/ includes(lastResponse.path, "/register")
    IN  IF lastResponse.status = 401
          THEN /\ storedToken[t] = NoToken
               /\ pathname[t] = IF onAuthPage THEN lastResponse.path ELSE LOGIN
               /\ lastResponse.outcome = "rejected"
          ELSE storedToken[t] = lastResponse.token

\* C20 witness: a 401 arrived, with a token stored, on a page below /register
C20_Witness ==
  /\ lastResponse.status = 401
  /\ lastResponse.token # NoToken
  /\ includes(lastResponse.path, "/register")
  /\ lastResponse.path # REGISTER
  /\ pathname[lastResponse.tab] = lastResponse.path

\* C21: after logout() the stored token and the stored user are absent, the
\* context's token and user are null and isAuthenticated is false; after a
\* failed login() the stored token and the stored user are absent and the
\* error was rethrown.
C21_AuthStateCleared ==
  /\ last.op = "logout" =>
       /\ storedToken[last.tab] = NoToken
       /\ storedUser[last.tab] = NoUser
       /\ token[last.tab] = NoToken
       /\ user[last.tab] = NoUser
       /\ ~isAuthenticated(last.tab)
  /\ last.op = "login_failed" =>
       /\ storedToken[last.tab] = NoToken
       /\ storedUser[last.tab] = NoUser
       /\ last.origin = "thrown"

\* C21 witness: a login failed in one tab while the other tab of the browser
\* was logged in, so that there was something to clear
C21_Witness ==
  /\ last.op = "login_failed"
  /\ \E u \in Tabs : u # last.tab /\ browser[u] = browser[last.tab]
                     /\ token[u] # NoToken /\ user[u] # NoUser

\* C30: in every tab the context's isAuthenticated is true exactly when a
\* token is stored in the localStorage of its browser.
C30_ContextAgreesWithStorage ==
  \A t \in Tabs : isAuthenticated(t) <=> storedToken[t] # NoToken

\* C22: markAsRead and markAllAsRead, resolved or rejected, leave the list and
\* unreadCount of every tab as they are; a rejection is swallowed; the list
\* or unreadCount of a tab changes only in a step that handles a push message
\* or applies a resync.
C22_MarkRequestsLeaveCache ==
  [][/\ marks' # marks =>
          /\ notifications' = notifications
          /\ unreadCount' = unreadCount
          /\ last'.op \in {"mark_failed", "mark_all_failed"} =>
               last'.origin = "swallowed"
     /\ \A t \in Tabs :
          (notifications'[t] # notifications[t] \/ unreadCount'[t] # unreadCount[t])
            => /\ last'.tab = t
               /\ last'.op \in PushOps \cup {"refresh"}]_vars

\* C22 witness: markAsRead failed for an entry that is still unread in the
\* list, with unreadCount counting it
C22_Witness ==
  /\ last.op = "mark_failed"
  /\ unreadCount[last.tab] > 0
  /\ \E i \in DOMAIN notifications[last.tab] :
       /\ notifications[last.tab][i].id = last.id
       /\ ~notifications[last.tab][i].is_read

\* C23: sendMessage transmits exactly when the current socket is OPEN; in any
\* case it leaves isConnected, lastMessage, the retry counter and the socket
\* as they are, and a message that is not transmitted leaves no trace: nothing
\* reaches the server, no timer and no socket is created.
C23_SendOnlyWhenOpen ==
  [][last'.op = "ping" =>
       /\ last'.origin = "sent" <=> readyState[last'.tab] = "OPEN"
       /\ isConnected' = isConnected
       /\ lastMessage' = lastMessage
       /\ reconnectAttempts' = reconnectAttempts
       /\ readyState' = readyState
       /\ last'.origin # "sent" =>
            /\ last'.origin = "skipped"
            /\ wire' = wire
            /\ heartbeat' = heartbeat
            /\ registry' = registry
            /\ timers' = timers
            /\ others' = others]_vars

\* C23 witness: the ping interval fired while the current socket was still
\* connecting, and the message was dropped
C23_Witness ==
  /\ last.op = "ping"
  /\ last.origin = "skipped"
  /\ readyState[last.tab] = "CONNECTING"

\* C24: a frame that does not parse is dropped: lastMessage, the message
\* effect, the list, unreadCount and isConnected are as before and the socket
\* is still open, so that the next frame meets the state the last well-formed
\* frame left.
C24_MalformedFrameDropped ==
  [][last'.op = "malformed" =>
       /\ lastMessage' = lastMessage
       /\ effectPending' = effectPending
       /\ notifications' = notifications
       /\ unreadCount' = unreadCount
       /\ isConnected' = isConnected
       /\ readyState'[last'.tab] = "OPEN"]_vars

\* C24 witness: a frame that does not parse arrived while a new_notification
\* was still waiting for the message effect, over a list that is not empty
C24_Witness ==
  /\ last.op = "malformed"
  /\ effectPending[last.tab]
  /\ lastMessage[last.tab].type = "new_notification"
  /\ notifications[last.tab] # <<>>
  /\ isConnected[last.tab]

AttemptsStep(t) ==
  reconnectAttempts'[t] # reconnectAttempts[t] =>
    \/ /\ reconnectAttempts'[t] = 0
       /\ isConnected'[t]
    \/ /\ reconnectAttempts'[t] = reconnectAttempts[t] + 1
       /\ Len(timers'[t]) < Len(timers[t])

\* C26: the retry counter is reset to 0 exactly when a socket opens and
\* incremented by 1 exactly when a reconnect timer fires, disconnect() and
\* authentication changes leave it alone, and it always lies in
\* 0..maxReconnectAttempts.
C26_AttemptCounter ==
  [][\A t \in Tabs :
       /\ AttemptsStep(t)
       /\ token'[t] # token[t] => reconnectAttempts'[t] = reconnectAttempts[t]
       /\ reconnectAttempts'[t] \in 0..maxReconnectAttempts]_vars

\* what the code keeps of it: how the counter changes, the range left aside
CounterSteps ==
  [][\A t \in Tabs :
       /\ AttemptsStep(t)
       /\ token'[t] # token[t] => reconnectAttempts'[t] = reconnectAttempts[t]]_vars

\* the sockets of one hook that are connecting or open: ws.current and the
\* ones it no longer refers to
Live(t) ==
  (IF readyState[t] \in {"CONNECTING", "OPEN"} THEN 1 ELSE 0)
  + Cardinality({i \in DOMAIN others[t] : others[t][i].st \in {"CONNECTING", "OPEN"}})

\* C27: one hook never has more than one WebSocket that is connecting or open.
C27_OneLiveSocket == \A t \in Tabs : Live(t) <= 1

\* C28: isConnected is true exactly when the hook's current socket is open.
C28_ConnectedIffOpen == \A t \in Tabs : isConnected[t] <=> readyState[t] = "OPEN"

\* C29: while the client is unauthenticated the cache is empty: no notification
\* in the list and an unread count of 0, whatever response or push is handled
\* after the logout.
C29_EmptyWhileLoggedOut ==
  \A t \in Tabs :
    ~isAuthenticated(t) => notifications[t] = <<>> /\ unreadCount[t] = 0
====
